---- MODULE Spec2Model ----
(***************************************************************************)
(* The Marketplace reindex command (lib/es/management/commands/            *)
(* reindex_mkt.py): Command.handle reads the rebuild flag, the alias and   *)
(* the old index's settings, then queues a chain of tasks                  *)
(*   flag_database, create_index, run_indexing, update_alias,              *)
(*   unflag_database, [delete_index], output_summary                       *)
(* each of which runs when its predecessor has succeeded.                  *)
(*                                                                         *)
(* State: the Reindexing table (records), the index store (indices and    *)
(* the indices bound to ALIAS), the wall clock, and for every invocation   *)
(* of the command its position, its locals and the tasks still queued.     *)
(***************************************************************************)
EXTENDS Integers, Sequences, FiniteSets, TLC

(* ------------------------------ bounds --------------------------------- *)

\* The invocations of the command that may be running at once.
Procs == {1, 2}

\* Number of invocations that are not refused in one behaviour; an
\* invocation that is refused may be repeated any number of times.
MaxRuns == 2

\* Sizes of the indexable corpus that run_indexing may enumerate.
CorpusSizes == {0, 250}

\* Largest corpus of the specification of the bulk load alone.
MaxCorpus == 250

\* Values of the --prefix option.
Prefixes == {""}

\* Settings the store may report for the index present at start; an entry
\* may be absent from them.
OldSettings ==
    {[number_of_replicas |-> 2, number_of_shards |-> 5,
      refresh_interval |-> "5s"],
     [number_of_replicas |-> 1, number_of_shards |-> 3,
      refresh_interval |-> "1s"],
     [number_of_replicas |-> 0, number_of_shards |-> 1,
      refresh_interval |-> "30s"],
     [number_of_shards |-> 3, refresh_interval |-> "1s"],
     [number_of_replicas |-> 1, refresh_interval |-> "1s"]}

(* ------------------------- program constants --------------------------- *)

DEFAULT_NUM_REPLICAS == 2
DEFAULT_NUM_SHARDS == 5

\* chunked(list(qs), 100)
ChunkSize == 100

\* time.sleep(5) in flag_database
SleepSeconds == 5

\* old_index = aliases[0] if aliases else None
None == <<>>

(* ----------------------------- state ----------------------------------- *)

VARIABLES
    now,          \* wall clock, in seconds (datetime.datetime.now())
    runs,         \* number of invocations that were not refused, so far
    records,      \* rows of the Reindexing table
    indices,      \* index store: name -> settings and content
    aliases,      \* names of the indices bound to ALIAS
    pc,           \* position of each invocation
    force,        \* kwargs['force']
    prefix,       \* kwargs['prefix']
    was_flagged,  \* value database_flagged() returned in handle
    old_index,    \* handle's old_index
    new_index,    \* handle's new_index
    num_replicas, \* handle's num_replicas
    num_shards,   \* handle's num_shards
    queue,        \* tasks of the TaskTree not yet started, in order
    chunks,       \* run_indexing: chunks not yet submitted
    ids,          \* run_indexing: len(list(qs))
    result,       \* what handle reported to its caller
    failed,       \* the task that raised, if any
    raised,       \* the error it raised
    done,         \* tasks of this run that have completed, in order
    completed     \* number of runs whose last task has succeeded

handlevars == <<force, prefix, was_flagged, old_index, new_index,
                num_replicas, num_shards, result>>
vars == <<now, runs, records, indices, aliases, pc, force, prefix, was_flagged,
          old_index, new_index, num_replicas, num_shards, queue, chunks,
          ids, result, failed, raised, done, completed>>

(* ---------------------------- helpers ---------------------------------- *)

\* amo.utils.timestamp_index: the name, followed by the current time to the
\* second.  A name is modelled as the pair <<prefixed name, timestamp>>.
timestamp_index(index, t) == <<index, t>>

\* lib.es.utils.database_flagged: does a Reindexing row exist?
database_flagged == records # {}

\* Variant: the check reads the flag only when force is given.
AlreadyOccuring_ForcedOnly(f) == database_flagged /\ f

\* Variant: the rows are never looked at.
AlreadyOccuring_Never(f) == FALSE

\* Line 196: the invocation is refused.
AlreadyOccuring(f) == database_flagged /\ ~f

\* amo.utils.chunked(seq, n) over the list 1..len: the chunks as <<first, last>>.
RECURSIVE chunkedFrom(_, _, _)
chunkedFrom(lo, len, n) ==
    IF lo > len THEN <<>>
    ELSE <<(<<lo, IF lo + n - 1 < len THEN lo + n - 1 ELSE len>>)>>
             \o chunkedFrom(lo + n, len, n)

chunked(len, n) == chunkedFrom(1, len, n)

\* Variant: the shard count of the old index is not carried over.
CreateSettings_DefaultShards(shards) ==
    [number_of_replicas |-> 0,
     number_of_shards |-> DEFAULT_NUM_SHARDS,
     refresh_interval |-> "-1"]

\* Lines 209-216: the settings of the old index as handle reads them; none
\* for no old index and for one the store does not find.
OldIndexSettings(old) ==
    IF old # None /\ old \in DOMAIN indices THEN indices[old] ELSE << >>

\* Variant: an entry that is absent reads as 0.
Setting_ZeroWhenMissing(s, key, default) ==
    IF key \in DOMAIN s THEN s[key] ELSE 0

\* s.get(key, default) (lines 218-219).
Setting(s, key, default) ==
    IF key \in DOMAIN s THEN s[key] ELSE default

\* The settings handle passes to create_index (lines 236-240).
CreateSettings(shards) ==
    [number_of_replicas |-> 0,
     number_of_shards |-> shards,
     refresh_interval |-> "-1"]

\* Variant: the default replica count is restored, not the one read.
CutoverSettings_DefaultReplicas(replicas) ==
    [number_of_replicas |-> DEFAULT_NUM_REPLICAS,
     refresh_interval |-> "5s"]

\* The settings handle passes to update_alias (lines 249-250).
CutoverSettings(replicas) ==
    [number_of_replicas |-> replicas,
     refresh_interval |-> "5s"]

\* ES.create_index(new_index, settings): a fresh, empty index.
NewIndex(settings, green) ==
    [number_of_replicas |-> settings.number_of_replicas,
     number_of_shards |-> settings.number_of_shards,
     refresh_interval |-> settings.refresh_interval,
     green |-> green,
     bulks |-> <<>>,
     submitted |-> <<>>,
     optimized |-> 0]

\* Variant: the old index is never queued for deletion.
TaskChain_NoDelete(old) ==
    <<"flag_database", "create_index", "run_indexing", "update_alias",
      "unflag_database", "output_summary">>

\* Variant: run_indexing is chained before create_index.
TaskChain_IndexBeforeCreate(old) ==
    <<"flag_database", "run_indexing", "create_index", "update_alias",
      "unflag_database">>
    \o (IF old # None THEN <<"delete_index">> ELSE <<>>)
    \o <<"output_summary">>

\* Variant: the old index is deleted before the alias is moved.
TaskChain_DeleteBeforeCutover(old) ==
    <<"flag_database", "create_index", "run_indexing">>
    \o (IF old # None THEN <<"delete_index">> ELSE <<>>)
    \o <<"update_alias", "unflag_database", "output_summary">>

\* Variant: the deletion of the old index is always chained.
TaskChain_AlwaysDelete(old) ==
    <<"flag_database", "create_index", "run_indexing", "update_alias",
      "unflag_database", "delete_index", "output_summary">>

\* Variant: the unflag step is not chained.
TaskChain_NoUnflag(old) ==
    <<"flag_database", "create_index", "run_indexing", "update_alias">>
    \o (IF old # None THEN <<"delete_index">> ELSE <<>>)
    \o <<"output_summary">>

\* Variant: the cutover is chained before the bulk load.
TaskChain_CutoverBeforeLoad(old) ==
    <<"flag_database", "create_index", "update_alias", "run_indexing",
      "unflag_database">>
    \o (IF old # None THEN <<"delete_index">> ELSE <<>>)
    \o <<"output_summary">>

\* Variant: the database is unflagged before the cutover.
TaskChain_UnflagBeforeCutover(old) ==
    <<"flag_database", "create_index", "run_indexing", "unflag_database",
      "update_alias">>
    \o (IF old # None THEN <<"delete_index">> ELSE <<>>)
    \o <<"output_summary">>

\* The chain of tasks handle builds (lines 222-259).
TaskChain(old) ==
    <<"flag_database", "create_index", "run_indexing", "update_alias",
      "unflag_database">>
    \o (IF old # None THEN <<"delete_index">> ELSE <<>>)
    \o <<"output_summary">>

\* Variant: the old index is never unbound.
AliasActions_AddOnly(new, old) == <<[op |-> "add", index |-> new]>>

\* Variant: the index to unbind is read from the alias at the cutover.
AliasActions_RemoveBound(new, old) ==
    <<[op |-> "add", index |-> new]>>
    \o (IF aliases # {}
          THEN <<[op |-> "remove", index |-> CHOOSE o \in aliases : TRUE]>>
          ELSE <<>>)

\* The actions update_alias submits in one update_aliases request (154-160).
AliasActions(new, old) ==
    <<[op |-> "add", index |-> new]>>
    \o (IF old # None THEN <<[op |-> "remove", index |-> old]>> ELSE <<>>)

\* The alias bindings after the store has applied a list of actions.
RECURSIVE ApplyActions(_, _)
ApplyActions(bound, actions) ==
    IF actions = <<>> THEN bound
    ELSE ApplyActions(
           IF Head(actions).op = "add"
             THEN bound \cup {Head(actions).index}
             ELSE bound \ {Head(actions).index},
           Tail(actions))

\* Every index an action names must exist, or the store rejects the request.
ActionsValid(actions) ==
    \A i \in 1..Len(actions) : actions[i].index \in DOMAIN indices

\* Variant: the row is not saved.
RowsAfterFlag_NotSaved(rows, p) == rows

\* Reindexing.objects.create(...) in flag_database (lines 121-122).
RowsAfterFlag(rows, p) ==
    rows \cup {[new_index |-> new_index[p], old_index |-> old_index[p],
                start_date |-> now, by |-> p]}

\* Variant: the rows are not deleted.
RowsAfterUnflag_KeepsRows(rows) == rows

\* Reindexing.objects.all().delete() in unflag_database (line 130).
RowsAfterUnflag(rows) == {}

\* Variant: update_alias goes straight to the alias request.
Entry_NoOptimize(task) ==
    IF task = "update_alias" THEN "update_aliases" ELSE task

\* Variant: the store takes a name that is in use.
NameFree_Always(name) == TRUE

\* ES.create_index raises IndexAlreadyExistsError for a name in use (line 80).
NameFree(name) == name \notin DOMAIN indices

\* Variant: --force does not clear the rows.
ForceClear_Skipped(f, rows) == rows

\* Lines 199-200: with --force, handle calls unflag_database() itself.
ForceClear(f, rows) == IF f THEN RowsAfterUnflag(rows) ELSE rows

\* What the store may answer to a bulk submission: every document taken,
\* some documents rejected, or no answer (transport error, store unavailable).
BulkOutcomes == {"ok", "partial", "error"}

\* Which identifiers have been deleted from the catalog between the listing
\* of run_indexing and the query of index_webapp: none, the first of the
\* chunk, or the last of the chunk and the one after it.
GoneKinds == {"none", "first", "last"}

Gone(chunk, kind) ==
    IF kind = "first" THEN {chunk[1]}
    ELSE IF kind = "last" THEN {chunk[2], chunk[2] + 1}
    ELSE {}

\* Variant: a document is built for every identifier of the chunk.
Documents_Unfiltered(chunk, gone) == chunk[1]..chunk[2]

\* Lines 91-93: the records with an id of the chunk are queried and one
\* document is built for each record found.
Documents(chunk, gone) == {id \in chunk[1]..chunk[2] : id \notin gone}

\* Variant: documents the store rejects make the call raise.
BulkError_OnRejects(outcome) ==
    IF outcome = "ok" THEN "" ELSE IF outcome = "partial" THEN "rejected"
    ELSE "error"

\* WebappIndexer.bulk_index: what the call raises; documents the store
\* rejects are reported and logged, not raised.
BulkError(outcome) == IF outcome = "error" THEN "error" ELSE ""

\* Variant: the documents of a chunk are built but never submitted.
BulkIndex_NotSubmitted(bulks, chunk) == bulks

\* WebappIndexer.bulk_index(docs, es=ES, index=index) (line 94): one bulk
\* submission for the chunk.
BulkIndex(bulks, chunk) == Append(bulks, chunk)

\* The first position of a task.
Entry(task) == IF task = "update_alias" THEN "optimize" ELSE task

Terminal == {"Completed", "Aborted", "Rejected"}

\* A task has succeeded: its callback, the next task of the chain, is started;
\* the run is complete when none is left.
TaskDone(p, task) ==
    /\ done' = [done EXCEPT ![p] = Append(@, task)]
    /\ IF queue[p] = <<>>
         THEN /\ pc' = [pc EXCEPT ![p] = "Completed"]
              /\ queue' = queue
              /\ completed' = completed + 1
         ELSE /\ pc' = [pc EXCEPT ![p] = Entry(Head(queue[p]))]
              /\ queue' = [queue EXCEPT ![p] = Tail(@)]
              /\ completed' = completed
    /\ failed' = failed
    /\ raised' = raised

\* A task has raised `exc`: its callbacks are never started.
TaskRaised(p, task, exc) ==
    /\ pc' = [pc EXCEPT ![p] = "Aborted"]
    /\ failed' = [failed EXCEPT ![p] = task]
    /\ raised' = [raised EXCEPT ![p] = exc]
    /\ UNCHANGED <<queue, done, completed>>

\* A task has raised an error of the store, of the database or of the
\* transport to them.
TaskFailed(p, task) == TaskRaised(p, task, "error")

(* ------------------------------ Init ----------------------------------- *)

\* The index a previous rebuild left bound to the alias.
InitialIndex == timestamp_index("", 0)

Init ==
    /\ now = SleepSeconds
    /\ runs = 0
    /\ records = {}
    /\ \/ /\ indices = << >>
          /\ aliases = {}
       \/ \E s \in OldSettings :
            /\ indices = (InitialIndex :>
                 (s @@ [green |-> TRUE, bulks |-> <<>>, submitted |-> <<>>,
                        optimized |-> 1]))
            /\ aliases = {InitialIndex}
    /\ pc = [p \in Procs |-> "idle"]
    /\ force = [p \in Procs |-> FALSE]
    /\ prefix = [p \in Procs |-> ""]
    /\ was_flagged = [p \in Procs |-> FALSE]
    /\ old_index = [p \in Procs |-> None]
    /\ new_index = [p \in Procs |-> None]
    /\ num_replicas = [p \in Procs |-> DEFAULT_NUM_REPLICAS]
    /\ num_shards = [p \in Procs |-> DEFAULT_NUM_SHARDS]
    /\ queue = [p \in Procs |-> <<>>]
    /\ chunks = [p \in Procs |-> <<>>]
    /\ ids = [p \in Procs |-> 0]
    /\ result = [p \in Procs |-> ""]
    /\ failed = [p \in Procs |-> ""]
    /\ raised = [p \in Procs |-> ""]
    /\ done = [p \in Procs |-> <<>>]
    /\ completed = 0

(* ------------------------ Command.handle ------------------------------- *)

\* Lines 193-200: the in-progress check; `f` and `pre` are the options of
\* the invocation.  A process that has ended may be invoked again.
Preflight(p, f, pre) ==
    /\ pc[p] \in {"idle"} \cup Terminal
    /\ runs < MaxRuns \/ AlreadyOccuring(f)
    /\ runs' = IF AlreadyOccuring(f) THEN runs ELSE runs + 1
    /\ force' = [force EXCEPT ![p] = f]
    /\ prefix' = [prefix EXCEPT ![p] = pre]
    /\ was_flagged' = [was_flagged EXCEPT ![p] = database_flagged]
    /\ old_index' = [old_index EXCEPT ![p] = None]
    /\ new_index' = [new_index EXCEPT ![p] = None]
    /\ num_replicas' = [num_replicas EXCEPT ![p] = DEFAULT_NUM_REPLICAS]
    /\ num_shards' = [num_shards EXCEPT ![p] = DEFAULT_NUM_SHARDS]
    /\ queue' = [queue EXCEPT ![p] = <<>>]
    /\ chunks' = [chunks EXCEPT ![p] = <<>>]
    /\ ids' = [ids EXCEPT ![p] = 0]
    /\ failed' = [failed EXCEPT ![p] = ""]
    /\ raised' = [raised EXCEPT ![p] = ""]
    /\ done' = [done EXCEPT ![p] = <<>>]
    /\ IF AlreadyOccuring(f)
         THEN /\ pc' = [pc EXCEPT ![p] = "Rejected"]
              /\ result' = [result EXCEPT ![p] =
                     "CommandError: Indexation already occuring"]
              /\ records' = records
         ELSE /\ pc' = [pc EXCEPT ![p] = "aliases"]
              /\ result' = [result EXCEPT ![p] = ""]
              /\ records' = ForceClear(f, records)
    /\ UNCHANGED <<now, indices, aliases, completed>>

\* Lines 202-206: the old index is the first one listed for the alias; the new
\* name carries the current time.
ReadAliases(p) ==
    /\ pc[p] = "aliases"
    /\ new_index' = [new_index EXCEPT ![p] = timestamp_index(prefix[p], now)]
    /\ IF aliases = {}
         THEN old_index' = [old_index EXCEPT ![p] = None]
         ELSE \E o \in aliases : old_index' = [old_index EXCEPT ![p] = o]
    /\ pc' = [pc EXCEPT ![p] = "settings"]
    /\ UNCHANGED <<now, runs, records, indices, aliases, force, prefix,
                   was_flagged, num_replicas, num_shards, result, queue,
                   chunks, ids, failed,
                   raised, done, completed>>

\* Lines 208-264: the old index's settings are read (not found: defaults),
\* the chain of tasks is built and its first task queued; handle returns.
ReadSettings(p) ==
    /\ pc[p] = "settings"
    /\ num_replicas' = [num_replicas EXCEPT ![p] =
           Setting(OldIndexSettings(old_index[p]), "number_of_replicas",
                   DEFAULT_NUM_REPLICAS)]
    /\ num_shards' = [num_shards EXCEPT ![p] =
           Setting(OldIndexSettings(old_index[p]), "number_of_shards",
                   DEFAULT_NUM_SHARDS)]
    /\ queue' = [queue EXCEPT ![p] = Tail(TaskChain(old_index[p]))]
    /\ pc' = [pc EXCEPT ![p] = Entry(Head(TaskChain(old_index[p])))]
    /\ result' = [result EXCEPT ![p] =
           "New index and indexing tasks all queued up."]
    /\ UNCHANGED <<now, runs, records, indices, aliases, force, prefix,
                   was_flagged, old_index, new_index, chunks, ids, failed,
                   raised, done, completed>>

(* ------------------------------ tasks ---------------------------------- *)

\* flag_database (lines 117-123): the row is created, then the task sleeps.
\* The sleep is the only passage of time the command itself guarantees, and
\* the clock of the model advances there.
flag_database(p, ok) ==
    /\ pc[p] = "flag_database"
    /\ IF ok
         THEN /\ records' = RowsAfterFlag(records, p)
              /\ now' = now + SleepSeconds
              /\ TaskDone(p, "flag_database")
         ELSE /\ UNCHANGED <<records, now>>
              /\ TaskFailed(p, "flag_database")
    /\ UNCHANGED <<runs, indices, aliases, handlevars, chunks, ids>>

\* create_index (lines 77-81): ES.create_index; an existing name is turned
\* into a CommandError, any other error of the store propagates as raised.
create_index(p, ok, green) ==
    /\ pc[p] = "create_index"
    /\ IF ~NameFree(new_index[p])
         THEN /\ indices' = indices
              /\ TaskRaised(p, "create_index",
                            "CommandError: New index already exists")
         ELSE IF ok
           THEN /\ indices' = (new_index[p] :>
                      NewIndex(CreateSettings(num_shards[p]), green))
                        @@ indices
                /\ pc' = [pc EXCEPT ![p] = "health"]
                /\ UNCHANGED <<queue, failed, raised, done, completed>>
           ELSE /\ indices' = indices
                /\ TaskFailed(p, "create_index")
    /\ UNCHANGED <<now, runs, records, aliases, handlevars, chunks, ids>>

\* create_index (lines 83-84): ES.health(wait_for_status='green'); the wait
\* ends when the index is green or when the store's timeout has passed, and
\* the response is not looked at.
health(p, outcome) ==
    /\ pc[p] = "health"
    /\ \/ /\ outcome = "green"
          /\ new_index[p] \in DOMAIN indices
          /\ indices' = [indices EXCEPT ![new_index[p]].green = TRUE]
          /\ TaskDone(p, "create_index")
       \/ /\ outcome = "timed_out"
          /\ new_index[p] \in DOMAIN indices
          /\ ~indices[new_index[p]].green
          /\ indices' = indices
          /\ TaskDone(p, "create_index")
       \/ /\ outcome = "error"
          /\ indices' = indices
          /\ TaskFailed(p, "create_index")
    /\ UNCHANGED <<now, runs, records, aliases, handlevars, chunks, ids>>

\* run_indexing (lines 110-113): the indexable ids are listed and chunked.
run_indexing(p, n) ==
    /\ pc[p] = "run_indexing"
    /\ ids' = [ids EXCEPT ![p] = n]
    /\ chunks' = [chunks EXCEPT ![p] = chunked(n, ChunkSize)]
    /\ IF chunked(n, ChunkSize) = <<>>
         THEN TaskDone(p, "run_indexing")
         ELSE /\ pc' = [pc EXCEPT ![p] = "index_webapp"]
              /\ UNCHANGED <<queue, failed, raised, done, completed>>
    /\ UNCHANGED <<now, runs, records, indices, aliases, handlevars>>

\* index_webapp (lines 87-94), once per chunk of the loop at lines 113-114:
\* the documents are built and sent in one bulk submission to the new index.
\* An error raised is not caught, neither here nor in run_indexing.
index_webapp(p, outcome, kind) ==
    /\ pc[p] = "index_webapp"
    /\ IF BulkError(outcome) = "" /\ new_index[p] \in DOMAIN indices
         THEN /\ indices' = [indices EXCEPT
                   ![new_index[p]].bulks = BulkIndex(@, Head(chunks[p])),
                   ![new_index[p]].submitted = Append(@,
                       [docs |-> Documents(Head(chunks[p]),
                                           Gone(Head(chunks[p]), kind)),
                        gone |-> Gone(Head(chunks[p]), kind),
                        outcome |-> outcome])]
              /\ chunks' = [chunks EXCEPT ![p] = Tail(@)]
              /\ IF Tail(chunks[p]) = <<>>
                   THEN TaskDone(p, "run_indexing")
                   ELSE UNCHANGED <<pc, queue, failed, raised, done,
                                    completed>>
         ELSE /\ UNCHANGED <<indices, chunks>>
              /\ TaskRaised(p, "run_indexing",
                            IF BulkError(outcome) = "" THEN "error"
                            ELSE BulkError(outcome))
    /\ UNCHANGED <<now, runs, records, aliases, handlevars, ids>>

\* update_alias (line 148): ES.optimize(new_index).
optimize(p, ok) ==
    /\ pc[p] = "optimize"
    /\ IF ok /\ new_index[p] \in DOMAIN indices
         THEN /\ indices' = [indices EXCEPT ![new_index[p]].optimized = @ + 1]
              /\ pc' = [pc EXCEPT ![p] = "update_settings"]
              /\ UNCHANGED <<queue, failed, raised, done, completed>>
         ELSE /\ indices' = indices
              /\ TaskFailed(p, "update_alias")
    /\ UNCHANGED <<now, runs, records, aliases, handlevars, chunks, ids>>

\* update_alias (line 151): ES.update_settings(new_index, settings).
update_settings(p, ok) ==
    /\ pc[p] = "update_settings"
    /\ IF ok /\ new_index[p] \in DOMAIN indices
         THEN /\ indices' = [indices EXCEPT
                   ![new_index[p]].number_of_replicas =
                       CutoverSettings(num_replicas[p]).number_of_replicas,
                   ![new_index[p]].refresh_interval =
                       CutoverSettings(num_replicas[p]).refresh_interval]
              /\ pc' = [pc EXCEPT ![p] = "update_aliases"]
              /\ UNCHANGED <<queue, failed, raised, done, completed>>
         ELSE /\ indices' = indices
              /\ TaskFailed(p, "update_alias")
    /\ UNCHANGED <<now, runs, records, aliases, handlevars, chunks, ids>>

\* update_alias (lines 153-161): one update_aliases request with all actions.
update_aliases(p, ok) ==
    /\ pc[p] = "update_aliases"
    /\ IF ok /\ ActionsValid(AliasActions(new_index[p], old_index[p]))
         THEN /\ aliases' = ApplyActions(aliases,
                     AliasActions(new_index[p], old_index[p]))
              /\ TaskDone(p, "update_alias")
         ELSE /\ aliases' = aliases
              /\ TaskFailed(p, "update_alias")
    /\ UNCHANGED <<now, runs, records, indices, handlevars, chunks, ids>>

\* unflag_database (lines 126-130), as the task after update_alias.
unflag_database(p, ok) ==
    /\ pc[p] = "unflag_database"
    /\ IF ok
         THEN /\ records' = RowsAfterUnflag(records)
              /\ TaskDone(p, "unflag_database")
         ELSE /\ records' = records
              /\ TaskFailed(p, "unflag_database")
    /\ UNCHANGED <<now, runs, indices, aliases, handlevars, chunks, ids>>

\* delete_index (lines 52-56): ES.delete_index(old_index); deleting an index
\* removes its alias bindings with it; a missing index is an error raised.
delete_index(p, ok) ==
    /\ pc[p] = "delete_index"
    /\ IF ok /\ old_index[p] \in DOMAIN indices
         THEN /\ indices' = [n \in DOMAIN indices \ {old_index[p]} |->
                                indices[n]]
              /\ aliases' = aliases \ {old_index[p]}
              /\ TaskDone(p, "delete_index")
         ELSE /\ UNCHANGED <<indices, aliases>>
              /\ TaskFailed(p, "delete_index")
    /\ UNCHANGED <<now, runs, records, handlevars, chunks, ids>>

\* output_summary (lines 164-168): the alias configuration is read and written
\* out.
output_summary(p, ok) ==
    /\ pc[p] = "output_summary"
    /\ IF ok
         THEN TaskDone(p, "output_summary")
         ELSE TaskFailed(p, "output_summary")
    /\ UNCHANGED <<now, runs, records, indices, aliases, handlevars, chunks, ids>>

(* ------------------------- specifications ------------------------------ *)

HealthOutcomes == {"green", "timed_out", "error"}

\* The command is invoked: handle starts with the options of the invocation.
Invoke(p) ==
    /\ pc[p] = "idle"
    /\ \E f \in BOOLEAN, pre \in Prefixes : Preflight(p, f, pre)

\* The command is invoked again after the run before it has ended.
Reinvoke(p) ==
    /\ pc[p] \in Terminal
    /\ \E f \in BOOLEAN, pre \in Prefixes : Preflight(p, f, pre)

\* The rest of handle and the queued tasks.
Step(p) ==
    \/ ReadAliases(p)
    \/ ReadSettings(p)
    \/ \E ok \in BOOLEAN : flag_database(p, ok)
    \/ \E ok \in BOOLEAN, green \in BOOLEAN : create_index(p, ok, green)
    \/ \E outcome \in HealthOutcomes : health(p, outcome)
    \/ \E n \in CorpusSizes : run_indexing(p, n)
    \/ \E outcome \in {"ok", "error"} : index_webapp(p, outcome, "none")
    \/ \E ok \in BOOLEAN : optimize(p, ok)
    \/ \E ok \in BOOLEAN : update_settings(p, ok)
    \/ \E ok \in BOOLEAN : update_aliases(p, ok)
    \/ \E ok \in BOOLEAN : unflag_database(p, ok)
    \/ \E ok \in BOOLEAN : delete_index(p, ok)
    \/ \E ok \in BOOLEAN : output_summary(p, ok)

\* Concurrent invocations: every process is one invocation of the command,
\* and their steps interleave.
Next == \E p \in Procs : Invoke(p) \/ Step(p)

Spec == Init /\ [][Next]_vars

\* One invocation at a time: the command is run again, up to MaxRuns times,
\* only after the run before it has ended.
NextSolo == Invoke(1) \/ Reinvoke(1) \/ Step(1)

SpecSolo == Init /\ [][NextSolo]_vars

\* The bulk load alone, for every size of corpus up to MaxCorpus, every
\* answer of the store to a submission and deletions from the catalog during
\* the load: a run on a fresh system that has flagged the database and
\* created its index.
InitBulk ==
    /\ now = 2 * SleepSeconds
    /\ runs = 1
    /\ records = {[new_index |-> timestamp_index("", SleepSeconds),
                   old_index |-> None, start_date |-> SleepSeconds,
                   by |-> 1]}
    /\ indices = (timestamp_index("", SleepSeconds) :>
                    NewIndex(CreateSettings(DEFAULT_NUM_SHARDS), TRUE))
    /\ aliases = {}
    /\ pc = [p \in Procs |-> IF p = 1 THEN "run_indexing" ELSE "idle"]
    /\ force = [p \in Procs |-> FALSE]
    /\ prefix = [p \in Procs |-> ""]
    /\ was_flagged = [p \in Procs |-> FALSE]
    /\ old_index = [p \in Procs |-> None]
    /\ new_index = [p \in Procs |->
           IF p = 1 THEN timestamp_index("", SleepSeconds) ELSE None]
    /\ num_replicas = [p \in Procs |-> DEFAULT_NUM_REPLICAS]
    /\ num_shards = [p \in Procs |-> DEFAULT_NUM_SHARDS]
    /\ queue = [p \in Procs |->
           IF p = 1 THEN <<"update_alias", "unflag_database",
                           "output_summary">>
                    ELSE <<>>]
    /\ chunks = [p \in Procs |-> <<>>]
    /\ ids = [p \in Procs |-> 0]
    /\ result = [p \in Procs |->
           IF p = 1 THEN "New index and indexing tasks all queued up."
                    ELSE ""]
    /\ failed = [p \in Procs |-> ""]
    /\ raised = [p \in Procs |-> ""]
    /\ done = [p \in Procs |->
           IF p = 1 THEN <<"flag_database", "create_index">> ELSE <<>>]
    /\ completed = 0

NextBulk ==
    \/ \E n \in 0..MaxCorpus : run_indexing(1, n)
    \/ \E outcome \in BulkOutcomes, kind \in GoneKinds :
         index_webapp(1, outcome, kind)

SpecBulk == InitBulk /\ [][NextBulk]_vars

\* The rest of handle and the queued tasks when the store and the database
\* answer every request: no task raises on their account.
StepOk(p) ==
    \/ ReadAliases(p)
    \/ ReadSettings(p)
    \/ flag_database(p, TRUE)
    \/ \E green \in BOOLEAN : create_index(p, TRUE, green)
    \/ \E outcome \in HealthOutcomes \ {"error"} : health(p, outcome)
    \/ \E n \in CorpusSizes : run_indexing(p, n)
    \/ index_webapp(p, "ok", "none")
    \/ optimize(p, TRUE)
    \/ update_settings(p, TRUE)
    \/ update_aliases(p, TRUE)
    \/ unflag_database(p, TRUE)
    \/ delete_index(p, TRUE)
    \/ output_summary(p, TRUE)

NextLive == Invoke(1) \/ Reinvoke(1) \/ StepOk(1)

\* One invocation at a time with no failing request; the worker runs a task
\* that is queued (apply_async, line 264, and the callbacks of the TaskTree).
SpecLive == Init /\ [][NextLive]_vars /\ WF_vars(StepOk(1))

TypeOK ==
    /\ now \in 0..(SleepSeconds * (MaxRuns + 1))
    /\ aliases \subseteq DOMAIN indices
    /\ \A p \in Procs : pc[p] \in
         {"idle", "aliases", "settings", "flag_database", "create_index",
          "health", "run_indexing", "index_webapp", "optimize",
          "update_settings", "update_aliases", "unflag_database",
          "delete_index", "output_summary"} \cup Terminal

(* ------------------------------ claims --------------------------------- *)

\* A run is in flight from the success of its flag step until its unflag
\* step has run.
InFlight(p) ==
    /\ pc[p] \notin {"idle"} \cup Terminal
    /\ Len(done[p]) >= 1
    /\ ~(\E i \in 1..Len(done[p]) : done[p][i] = "unflag_database")

Ran(p, task) == \E i \in 1..Len(done[p]) : done[p][i] = task

\* C1: an invocation made while a Reindexing row exists and without force
\* fails with the CommandError 'Indexation already occuring', changes neither
\* the rows nor the index store, and queues and runs no task.
C1_RefusedWhileFlagged ==
    /\ [][\A p \in Procs :
            (pc[p] = "idle" /\ pc'[p] # "idle" /\ database_flagged
               /\ ~force'[p])
            => /\ pc'[p] = "Rejected"
               /\ result'[p] = "CommandError: Indexation already occuring"
               /\ UNCHANGED <<records, indices, aliases>>]_vars
    /\ [](\A p \in Procs :
            pc[p] = "Rejected" => queue[p] = <<>> /\ done[p] = <<>>)
    /\ [][\A p \in Procs : pc[p] = "Rejected" => pc'[p] = "Rejected"]_vars

\* C1 witness: an invocation has been refused while another run holds the
\* flag and has already created its index.
C1_Witness ==
    \E p, q \in Procs :
        /\ pc[p] = "Rejected"
        /\ InFlight(q)
        /\ new_index[q] \in DOMAIN indices
        /\ records # {}

\* C2: of the invocations made without force, at most one is in flight
\* (between its flag step and its unflag step) at any time.
C2_OneRebuildInFlight ==
    \A p, q \in Procs :
        (p # q /\ ~force[p] /\ ~force[q]) => ~(InFlight(p) /\ InFlight(q))

\* C3: at most one Reindexing row exists in every reachable state.
C3_AtMostOneRecord == Cardinality(records) <= 1

\* C4: in a run started with no row present, the flag is false until the
\* flag step has completed, true from then until the unflag step has run, and
\* false after it, during the deletion of the old index and the summary too.
C4_FlagWindow ==
    \A p \in Procs :
        (pc[p] \notin {"idle", "Rejected"} /\ ~was_flagged[p]) =>
            /\ ~Ran(p, "flag_database") => ~database_flagged
            /\ (Ran(p, "flag_database") /\ ~Ran(p, "unflag_database"))
                 => database_flagged
            /\ Ran(p, "unflag_database") => ~database_flagged

\* C4 witness: a run started unflagged has cleared the flag and is about to
\* delete the old index.
C4_Witness ==
    \E p \in Procs :
        /\ ~was_flagged[p]
        /\ pc[p] = "delete_index"
        /\ Ran(p, "unflag_database")

\* C5: once the alias is bound to exactly one index, every step of a run
\* leaves it bound to exactly one index.
C5_AliasStaysSingle ==
    [][Cardinality(aliases) = 1 => Cardinality(aliases') = 1]_vars

\* C5 witness: the cutover of a run that had an old index has been applied:
\* the alias is on the new index and the old index still exists.
C5_Witness ==
    \E p \in Procs :
        /\ pc[p] = "unflag_database"
        /\ old_index[p] # None
        /\ old_index[p] \in DOMAIN indices
        /\ aliases = {new_index[p]}

\* C6: when a run has completed, the alias is bound to its new index only and
\* the index it found bound at the start is gone; when every run so far has
\* completed (the first, and the second after it), the new index is the only
\* index of the store.
C6_AfterFullRun ==
    \A p \in Procs :
        pc[p] = "Completed" =>
            /\ aliases = {new_index[p]}
            /\ new_index[p] \in DOMAIN indices
            /\ old_index[p] # None => old_index[p] \notin DOMAIN indices
            /\ completed = runs => DOMAIN indices = {new_index[p]}

\* C6 witness: the second of two full runs in succession has completed.
C6_Witness ==
    \E p \in Procs :
        pc[p] = "Completed" /\ runs = 2 /\ completed = 2

\* The order of the steps of a run.
StepOrder(hadOld) ==
    IF hadOld
      THEN <<"flag_database", "create_index", "run_indexing", "update_alias",
             "unflag_database", "delete_index", "output_summary">>
      ELSE <<"flag_database", "create_index", "run_indexing", "update_alias",
             "unflag_database", "output_summary">>

\* The step a position belongs to.
StepOf(at) ==
    CASE at = "health" -> "create_index"
      [] at = "index_webapp" -> "run_indexing"
      [] at \in {"optimize", "update_settings", "update_aliases"}
           -> "update_alias"
      [] OTHER -> at

\* C7: the steps that have completed are an initial part of the fixed order,
\* the step being run (or the one that failed) is the next one of that
\* order, and a completed run has gone through all of them.
C7_StepOrder ==
    \A p \in Procs :
        LET order == StepOrder(old_index[p] # None)
            n == Len(done[p])
        IN  /\ n <= Len(order)
            /\ done[p] = SubSeq(order, 1, n)
            /\ pc[p] \in {"idle", "Rejected", "aliases", "settings"} => n = 0
            /\ pc[p] = "Completed" => done[p] = order
            /\ pc[p] = "Aborted" => n < Len(order) /\ failed[p] = order[n + 1]
            /\ pc[p] \notin {"idle", "aliases", "settings"} \cup Terminal
                 => n < Len(order) /\ StepOf(pc[p]) = order[n + 1]

\* C7 witness: a run with an old index has gone through all seven steps.
C7_Witness ==
    \E p \in Procs : pc[p] = "Completed" /\ Len(done[p]) = 7

\* C8: when create_index, run_indexing or update_alias has failed, the steps
\* that completed are exactly those before it, nothing is cleaned up, and the
\* row made by the flag step is still there.
C8_AbortLeavesFlag ==
    \A p \in Procs :
        (pc[p] = "Aborted"
           /\ failed[p] \in {"create_index", "run_indexing", "update_alias"})
        =>  /\ \E r \in records : r.by = p /\ r.new_index = new_index[p]
            /\ ~Ran(p, "unflag_database")
            /\ ~Ran(p, "delete_index")
            /\ ~Ran(p, "output_summary")
            /\ ~Ran(p, failed[p])
            /\ Ran(p, "create_index") => new_index[p] \in DOMAIN indices
            /\ old_index[p] # None => old_index[p] \in DOMAIN indices

\* C8 witness: the bulk load has failed after the index was created.
C8_Witness ==
    \E p \in Procs :
        /\ pc[p] = "Aborted"
        /\ failed[p] = "run_indexing"
        /\ new_index[p] \in DOMAIN indices
        /\ records # {}

\* C9: before the alias request of its cutover has been applied, a run's new
\* index is not bound to the alias; once it is bound, every chunk has been
\* submitted to it and it has been optimized.
C9_NewIndexHidden ==
    \A p \in Procs :
        (pc[p] \notin {"idle", "Rejected", "aliases"}) =>
            /\ ~Ran(p, "update_alias") => new_index[p] \notin aliases
            /\ new_index[p] \in aliases =>
                 /\ indices[new_index[p]].bulks = chunked(ids[p], ChunkSize)
                 /\ indices[new_index[p]].optimized = 1

\* C9 witness: the alias has just been moved to an index loaded in three
\* submissions.
C9_Witness ==
    \E p \in Procs :
        /\ pc[p] = "unflag_database"
        /\ new_index[p] \in aliases
        /\ Len(indices[new_index[p]].bulks) = 3

\* C10: an old index found at preflight exists until the delete step, is left
\* as it was by every other step, stays bound to the alias until the cutover,
\* and is gone only when the alias is on the new index and the flag is
\* cleared; the alias always resolves to an index that exists.
C10_OldIndexKept ==
    /\ [](\A p \in Procs :
            (old_index[p] # None /\ pc[p] \notin {"idle", "Rejected"}) =>
                /\ ~Ran(p, "delete_index") => old_index[p] \in DOMAIN indices
                /\ ~Ran(p, "update_alias") => old_index[p] \in aliases
                /\ old_index[p] \notin DOMAIN indices =>
                     /\ aliases = {new_index[p]}
                     /\ Ran(p, "unflag_database")
                     /\ ~database_flagged
                /\ aliases # {}
                /\ aliases \subseteq DOMAIN indices)
    /\ [][\A p \in Procs :
            (old_index[p] # None /\ old_index[p] \in DOMAIN indices
               /\ pc[p] # "delete_index")
            => /\ old_index[p] \in DOMAIN indices'
               /\ indices'[old_index[p]] = indices[old_index[p]]]_vars

\* C10 witness: the old index has been deleted after the cutover and the
\* unflag step.
C10_Witness ==
    \E p \in Procs :
        /\ pc[p] = "output_summary"
        /\ old_index[p] # None
        /\ old_index[p] \notin DOMAIN indices

\* The cutover of run p has been applied and the index it found bound at
\* preflight, if any, is still there to compare with.
AfterCutover(p) ==
    /\ pc[p] \notin {"idle", "Rejected"}
    /\ Ran(p, "update_alias")
    /\ new_index[p] \in DOMAIN indices
    /\ old_index[p] # None => old_index[p] \in DOMAIN indices

\* The replica count of an index: the entry of its settings, 2 without one.
Replicas(index) ==
    IF "number_of_replicas" \in DOMAIN index
      THEN index.number_of_replicas ELSE 2

\* The shard count of an index: the entry of its settings, 5 without one.
Shards(index) ==
    IF "number_of_shards" \in DOMAIN index
      THEN index.number_of_shards ELSE 5

\* C11 as stated: after the cutover the replica count and the refresh
\* interval of the new index both equal those of the old index, and the
\* defaults when there was no old index.
C11_SettingsRestored ==
    \A p \in Procs :
        AfterCutover(p) =>
            IF old_index[p] # None
              THEN /\ indices[new_index[p]].number_of_replicas =
                        Replicas(indices[old_index[p]])
                   /\ indices[new_index[p]].refresh_interval =
                        indices[old_index[p]].refresh_interval
              ELSE indices[new_index[p]].number_of_replicas = 2

\* C11 amended: after the cutover the replica count of the new index equals
\* that of the old index (2 when there was none) and its refresh interval is
\* '5s', whatever the refresh interval of the old index.
C11_ReplicasRestored ==
    \A p \in Procs :
        AfterCutover(p) =>
            /\ indices[new_index[p]].refresh_interval = "5s"
            /\ IF old_index[p] # None
                 THEN indices[new_index[p]].number_of_replicas =
                        Replicas(indices[old_index[p]])
                 ELSE indices[new_index[p]].number_of_replicas = 2

\* C11 witness: the cutover has been applied over an old index that had one
\* replica and a refresh interval of '1s'.
C11_Witness ==
    \E p \in Procs :
        /\ AfterCutover(p)
        /\ old_index[p] # None
        /\ Replicas(indices[old_index[p]]) = 1
        /\ "number_of_replicas" \in DOMAIN indices[old_index[p]]
        /\ indices[old_index[p]].refresh_interval = "1s"
        /\ indices[new_index[p]].number_of_replicas = 1

\* Number of identifiers of a submission <<first, last>>.
Size(chunk) == chunk[2] - chunk[1] + 1

\* C12: for every number N of indexable identifiers the bulk load issues
\* ceil(N/100) submissions of at most 100 identifiers, all but the last of
\* exactly 100, which cover the identifiers 1..N once each, in order.
C12_BulkSubmissions ==
    \A p \in Procs :
        (pc[p] \in {"index_webapp", "optimize"}) =>
            LET b == indices[new_index[p]].bulks
                N == ids[p]
            IN  /\ \A i \in 1..Len(b) :
                     /\ Size(b[i]) >= 1
                     /\ Size(b[i]) <= 100
                     /\ b[i][1] = 100 * (i - 1) + 1
                     /\ b[i][2] <= N
                     /\ i < Len(b) => Size(b[i]) = 100
                /\ pc[p] = "optimize" =>
                     /\ Len(b) = (N + 99) \div 100
                     /\ N > 0 => b[Len(b)][2] = N

\* C12 witness: 250 identifiers have been loaded in submissions of 100, 100
\* and 50.
C12_Witness ==
    \E p \in Procs :
        /\ pc[p] = "optimize"
        /\ ids[p] = 250
        /\ indices[new_index[p]].bulks =
             <<(<<1, 100>>), (<<101, 200>>), (<<201, 250>>)>>

\* C13: a failure of the deletion of the old index is not escalated: the
\* run does not end Aborted on it, it goes on to the summary and ends
\* Completed.
C13_CleanupNotEscalated ==
    \A p \in Procs : ~(pc[p] = "Aborted" /\ failed[p] = "delete_index")

\* handle returned normally, with its closing message.
ReportsSuccess(p) ==
    result[p] = "New index and indexing tasks all queued up."

\* C14: of the runs that have ended, the invocation has reported success for
\* those that ended Completed and an error for all others.
C14_ExitMatchesOutcome ==
    \A p \in Procs :
        pc[p] \in Terminal => (ReportsSuccess(p) <=> pc[p] = "Completed")

\* C15: an invocation with force made while a stale row exists is not
\* refused; the stale row is gone before the flag step creates the new one,
\* which is then the only row; the steps follow the same order as in any run,
\* and a completed run ends with one alias binding and no row.
C15_ForcedRun ==
    \A p \in Procs :
        (pc[p] # "idle" /\ force[p] /\ was_flagged[p]) =>
            /\ pc[p] # "Rejected"
            /\ result[p] # "CommandError: Indexation already occuring"
            /\ ~Ran(p, "flag_database") => records = {}
            /\ (Ran(p, "flag_database") /\ ~Ran(p, "unflag_database")) =>
                 /\ Cardinality(records) = 1
                 /\ \A r \in records :
                      r.by = p /\ r.new_index = new_index[p]
            /\ done[p] = SubSeq(StepOrder(old_index[p] # None), 1,
                                Len(done[p]))
            /\ pc[p] = "Completed" =>
                 /\ done[p] = StepOrder(old_index[p] # None)
                 /\ Cardinality(aliases) = 1
                 /\ records = {}

\* C15 witness: a forced run started over a stale row has completed.
C15_Witness ==
    \E p \in Procs :
        force[p] /\ was_flagged[p] /\ pc[p] = "Completed"

\* A run that found no index bound to the alias.
FreshRun(p) ==
    /\ pc[p] \notin {"idle", "aliases", "Rejected"}
    /\ old_index[p] = None

C16_NoRemoveNoCleanup(p) ==
    /\ AliasActions(new_index[p], old_index[p]) =
           <<[op |-> "add", index |-> new_index[p]]>>
    /\ pc[p] # "delete_index"
    /\ ~Ran(p, "delete_index")
    /\ \A i \in 1..Len(queue[p]) : queue[p][i] # "delete_index"
    /\ failed[p] # "delete_index"

\* C16: in a run that found no index bound to the alias, the alias request
\* of the cutover is the single action that adds the new index, with no
\* remove; delete_index is not in the chain and is never started, and no step
\* of the run removes an index from the store.
C16_FreshSystem ==
    [][\A p \in Procs :
         /\ FreshRun(p)' => C16_NoRemoveNoCleanup(p)'
         /\ (FreshRun(p) /\ pc[p] \notin Terminal) =>
              DOMAIN indices \subseteq DOMAIN indices'
         /\ (FreshRun(p) /\ pc[p] = "update_aliases"
               /\ pc'[p] = "unflag_database") =>
              aliases' = aliases \cup {new_index[p]}]_vars

\* C16 witness: a run on a fresh system has completed in six steps and the
\* alias is bound to its index.
C16_Witness ==
    \E p \in Procs :
        /\ old_index[p] = None
        /\ pc[p] = "Completed"
        /\ Len(done[p]) = 6
        /\ new_index[p] \in aliases

\* A process holds a name it derived at lines 205-206.
Derived(p) == pc[p] \notin {"idle", "aliases", "Rejected"}

\* C17: two rebuild attempts with the same prefix never hold the same derived
\* index name.
C17_DistinctNames ==
    \A p, q \in Procs :
        (p # q /\ Derived(p) /\ Derived(q) /\ prefix[p] = prefix[q]) =>
            new_index[p] # new_index[q]

\* C18: a cleanup step that finds the old index already gone raises nothing,
\* leaves the store as it is and hands over to the summary.
C18_DeleteIdempotent ==
    [][\A p \in Procs :
         (pc[p] = "delete_index" /\ old_index[p] \notin DOMAIN indices
            /\ pc'[p] # pc[p]) =>
              /\ pc'[p] = "output_summary"
              /\ failed'[p] = ""
              /\ UNCHANGED <<indices, aliases>>]_vars

\* The end of a full run: the summary is out, no row is left, the alias is
\* bound to the new index alone and the old index is gone.
FullyRebuilt(p) ==
    /\ pc[p] = "Completed"
    /\ Ran(p, "output_summary")
    /\ records = {}
    /\ aliases = {new_index[p]}
    /\ old_index[p] # None => old_index[p] \notin DOMAIN indices

\* C19: when the queued steps are scheduled fairly and none fails, a run
\* started with no row in the table eventually completes, with the row
\* absent, the alias bound only to the new index and the old index deleted.
C19_RunCompletes ==
    \A p \in Procs :
        (pc[p] = "aliases" /\ ~was_flagged[p]) ~> FullyRebuilt(p)

\* C19 witness: a run started with no row, over an old index, has completed.
C19_Witness ==
    \E p \in Procs :
        /\ ~was_flagged[p]
        /\ old_index[p] # None
        /\ FullyRebuilt(p)

\* The new index of the run exists and the cutover has not yet updated its
\* settings.
Loading(p) ==
    /\ new_index[p] \in DOMAIN indices
    /\ \/ pc[p] \in {"health", "run_indexing", "index_webapp", "optimize",
                     "update_settings"}
       \/ pc[p] = "Aborted" /\ failed[p] \in {"create_index", "run_indexing"}

\* C20: from its creation until the cutover updates its settings the new
\* index has no replicas and a disabled refresh, whatever the old index has,
\* and the shard count of the old index, or 5 when there is no old index.
C20_BulkLoadSettings ==
    \A p \in Procs :
        Loading(p) =>
            /\ indices[new_index[p]].number_of_replicas = 0
            /\ indices[new_index[p]].refresh_interval = "-1"
            /\ indices[new_index[p]].number_of_shards =
                 IF old_index[p] # None /\ old_index[p] \in DOMAIN indices
                   THEN Shards(indices[old_index[p]])
                   ELSE DEFAULT_NUM_SHARDS

\* C20 witness: the bulk load into an index created over an old index with
\* other settings than the defaults has ended.
C20_Witness ==
    \E p \in Procs :
        /\ pc[p] = "optimize"
        /\ old_index[p] \in DOMAIN indices
        /\ "number_of_shards" \in DOMAIN indices[old_index[p]]
        /\ Shards(indices[old_index[p]]) # DEFAULT_NUM_SHARDS
        /\ Replicas(indices[old_index[p]]) # 0
        /\ indices[new_index[p]].number_of_shards =
             Shards(indices[old_index[p]])
        /\ indices[new_index[p]].number_of_replicas = 0

\* C21: when handle reads the settings of an old index that the store does
\* not find, or whose settings lack the replica or the shard entry, it does
\* not abort: each count it cannot read is the default (2 replicas, 5
\* shards), the other is the one read, and the chain is queued as usual.
C21_SettingsFallback ==
    [][\A p \in Procs :
         (pc[p] = "settings" /\ pc'[p] # "settings") =>
            /\ pc'[p] = "flag_database"
            /\ queue'[p] = Tail(TaskChain(old_index[p]))
            /\ result'[p] = "New index and indexing tasks all queued up."
            /\ num_replicas'[p] =
                 IF old_index[p] \in DOMAIN indices
                   THEN Replicas(indices[old_index[p]]) ELSE 2
            /\ num_shards'[p] =
                 IF old_index[p] \in DOMAIN indices
                   THEN Shards(indices[old_index[p]]) ELSE 5]_vars

\* C21 witness: a run is queued over an old index whose settings carry a
\* shard count of 3 and no replica entry.
C21_Witness ==
    \E p \in Procs :
        /\ pc[p] = "flag_database"
        /\ old_index[p] \in DOMAIN indices
        /\ "number_of_replicas" \notin DOMAIN indices[old_index[p]]
        /\ num_replicas[p] = 2
        /\ num_shards[p] = 3

\* The new index of run p, created by it.
HasNewIndex(p) ==
    /\ pc[p] \notin {"idle", "aliases", "settings", "Rejected"}
    /\ new_index[p] \in DOMAIN indices

\* C22: in a run, optimize is called on the new index at most once; when it
\* has been called, the bulk load is over and every chunk has been submitted,
\* and no submission follows it; while it has not been called, neither the
\* settings update nor the alias update has started.
C22_OptimizeOnceAfterLoad ==
    \A p \in Procs :
        HasNewIndex(p) =>
            /\ indices[new_index[p]].optimized <= 1
            /\ indices[new_index[p]].optimized = 1 =>
                 /\ Ran(p, "run_indexing")
                 /\ chunks[p] = <<>>
                 /\ indices[new_index[p]].bulks = chunked(ids[p], ChunkSize)
            /\ indices[new_index[p]].optimized = 0 =>
                 /\ pc[p] \notin {"update_settings", "update_aliases"}
                 /\ ~Ran(p, "update_alias")
                 /\ new_index[p] \notin aliases
                 /\ indices[new_index[p]].refresh_interval = "-1"

\* C22 witness: optimize has been called after three bulk submissions and the
\* settings update is next.
C22_Witness ==
    \E p \in Procs :
        /\ pc[p] = "update_settings"
        /\ indices[new_index[p]].optimized = 1
        /\ Len(indices[new_index[p]].bulks) = 3

\* C23: create_index has completed, and the bulk load may run, only on a new
\* index that the store has reported healthy.
C23_HealthyBeforeLoad ==
    \A p \in Procs :
        (HasNewIndex(p) /\ Ran(p, "create_index")) =>
            indices[new_index[p]].green

\* C24: when create_index runs and an index with the new name is already in
\* the store, the step raises the 'already exists' CommandError and the run
\* is aborted there: the step leaves the index store, the alias and the rows
\* as they are, and no step of the run is started after it.
C24_NameTaken ==
    [][\A p \in Procs :
         /\ (pc[p] = "create_index" /\ new_index[p] \in DOMAIN indices
               /\ pc'[p] # pc[p]) =>
              /\ pc'[p] = "Aborted"
              /\ failed'[p] = "create_index"
              /\ raised'[p] = "CommandError: New index already exists"
              /\ UNCHANGED <<indices, aliases, records>>
              /\ done'[p] = done[p]
         /\ (pc[p] = "Aborted" /\ failed[p] = "create_index") =>
              (pc'[p] = "Aborted" /\ done'[p] = done[p])]_vars

\* C24 witness: a run has been aborted by the 'already exists' error, after
\* its flag step and before any other step.
C24_Witness ==
    \E p \in Procs :
        /\ pc[p] = "Aborted"
        /\ raised[p] = "CommandError: New index already exists"
        /\ new_index[p] \in DOMAIN indices
        /\ done[p] = <<"flag_database">>

\* Run p is in its bulk load, or has left it.
InLoad(p) ==
    \/ pc[p] \in {"index_webapp", "optimize"}
    \/ pc[p] = "Aborted" /\ failed[p] = "run_indexing"

\* C25: a submission in which the store rejects documents does not end the
\* bulk load: the chunks are submitted one after the other, whatever the
\* store answered for the ones before, and the load hands over to the cutover
\* when all are submitted; the load is aborted only by an error of the
\* transport or of the store, and the chunk of that submission is not
\* submitted again.
C25_BulkErrors ==
    \A p \in Procs :
        (InLoad(p) /\ new_index[p] \in DOMAIN indices) =>
            LET idx == indices[new_index[p]]
            IN  /\ idx.bulks \o chunks[p] = chunked(ids[p], ChunkSize)
                /\ Len(idx.submitted) = Len(idx.bulks)
                /\ pc[p] = "optimize" => chunks[p] = <<>>
                /\ pc[p] = "Aborted" =>
                     /\ raised[p] = "error"
                     /\ chunks[p] # <<>>

\* C25 witness: the store rejected documents of the first of three chunks,
\* the two others were submitted and the cutover is next.
C25_Witness ==
    \E p \in Procs :
        /\ pc[p] = "optimize"
        /\ Len(indices[new_index[p]].submitted) = 3
        /\ indices[new_index[p]].submitted[1].outcome = "partial"

\* C26: the documents of every submission are those of the identifiers of
\* its chunk whose record was still there when the documents were built: no
\* document for a deleted identifier, none for an identifier outside the
\* chunk, and a chunk with a deleted identifier is submitted all the same.
C26_DocumentsOfChunk ==
    \A p \in Procs :
        (InLoad(p) /\ new_index[p] \in DOMAIN indices) =>
            LET idx == indices[new_index[p]]
            IN  \A i \in 1..Len(idx.submitted) :
                    /\ i <= Len(idx.bulks)
                    /\ idx.submitted[i].docs \subseteq
                         idx.bulks[i][1]..idx.bulks[i][2]
                    /\ idx.submitted[i].docs \cap idx.submitted[i].gone = {}
                    /\ \A id \in idx.bulks[i][1]..idx.bulks[i][2] :
                         id \in idx.submitted[i].docs
                           \/ id \in idx.submitted[i].gone

\* C26 witness: a chunk of 100 identifiers, the first of them deleted since
\* the listing, has been submitted with 99 documents.
C26_Witness ==
    \E p \in Procs :
        /\ InLoad(p)
        /\ new_index[p] \in DOMAIN indices
        /\ Len(indices[new_index[p]].submitted) >= 1
        /\ indices[new_index[p]].submitted[1].gone = {1}
        /\ indices[new_index[p]].submitted[1].docs = 2..100

\* The last run of p has been aborted or refused and a row is in the table.
Stuck(p) == pc[p] \in {"Aborted", "Rejected"} /\ records # {}

\* C27: while the row left by an aborted run is in the table, an invocation
\* without force is refused with the 'already occuring' error and changes
\* neither the rows nor the index store nor the alias, however often it is
\* repeated; an invocation with force deletes the rows and goes on to set up
\* a new rebuild.
C27_StuckUntilForced ==
    [][\A p \in Procs :
         (Stuck(p) /\ <<pc[p], force[p], runs>>' # <<pc[p], force[p], runs>>)
           => \/ /\ ~force'[p]
                 /\ pc'[p] = "Rejected"
                 /\ result'[p] = "CommandError: Indexation already occuring"
                 /\ UNCHANGED <<records, indices, aliases, now, runs>>
                 /\ queue'[p] = <<>>
              \/ /\ force'[p]
                 /\ pc'[p] = "aliases"
                 /\ records' = {}
                 /\ runs' = runs + 1
                 /\ UNCHANGED <<indices, aliases>>]_vars

\* C27 witness: after a run that was aborted with its row left in the table
\* and an invocation that was refused, an invocation with force has set up a
\* new rebuild, which has flagged the database.
C27_Witness ==
    \E p \in Procs :
        /\ force[p]
        /\ was_flagged[p]
        /\ runs = 2
        /\ completed = 0
        /\ pc[p] = "create_index"
        /\ \A r \in records : r.new_index = new_index[p]

\* C28: while a run is between the end of its flag step and its unflag step,
\* the database is flagged, whatever other invocations do meanwhile.
C28_FlagHeldWhileInFlight ==
    \A p \in Procs : InFlight(p) => database_flagged

\* C29: for one run at a time, a step of the run that changes the index
\* store or the alias is taken while a row is in the table and leaves one
\* there; the one exception is the deletion of the old index, taken after the
\* unflag step with no row in the table.
C29_MutationsUnderFlag ==
    [][\A p \in Procs :
         (pc[p] \notin {"idle"} \cup Terminal
            /\ <<indices, aliases>>' # <<indices, aliases>>) =>
              IF pc[p] = "delete_index"
                THEN /\ Ran(p, "unflag_database")
                     /\ records = {}
                     /\ DOMAIN indices' = DOMAIN indices \ {old_index[p]}
                ELSE /\ pc[p] \in {"create_index", "health", "index_webapp",
                                   "optimize", "update_settings",
                                   "update_aliases"}
                     /\ records # {}
                     /\ records' = records]_vars

\* C29 witness: the old index has been deleted with no row in the table,
\* after a cutover to a new index loaded with three submissions.
C29_Witness ==
    \E p \in Procs :
        /\ pc[p] = "output_summary"
        /\ Ran(p, "delete_index")
        /\ records = {}
        /\ old_index[p] \notin DOMAIN indices
        /\ aliases = {new_index[p]}
        /\ Len(indices[new_index[p]].bulks) = 3

\* The step taken is one of run p.
Stepped(p) ==
    <<pc[p], chunks[p], done[p]>>' # <<pc[p], chunks[p], done[p]>>

\* C30: once handle has queued the chain, no step of the run changes the old
\* index name or the replica and shard counts handle read; the index is
\* created with that shard count and its settings are updated with that
\* replica count; the only index a step unbinds from the alias or deletes is
\* that old index, and every index other than the old and the new one keeps
\* its settings, its content and its alias binding.
C30_CapturedAtPreflight ==
    [][\A p \in Procs :
         (Stepped(p) /\ pc[p] \notin {"idle", "aliases", "settings"}
                                       \cup Terminal) =>
            /\ old_index'[p] = old_index[p]
            /\ new_index'[p] = new_index[p]
            /\ num_replicas'[p] = num_replicas[p]
            /\ num_shards'[p] = num_shards[p]
            /\ (pc[p] = "create_index" /\ pc'[p] = "health") =>
                 indices'[new_index[p]].number_of_shards = num_shards[p]
            /\ (pc[p] = "update_settings" /\ pc'[p] = "update_aliases") =>
                 indices'[new_index[p]].number_of_replicas = num_replicas[p]
            /\ aliases \ aliases' \subseteq {old_index[p]}
            /\ DOMAIN indices \ DOMAIN indices' \subseteq {old_index[p]}
            /\ \A n \in DOMAIN indices \ {old_index[p], new_index[p]} :
                 /\ n \in DOMAIN indices'
                 /\ indices'[n] = indices[n]
                 /\ n \in aliases' <=> n \in aliases
            /\ old_index[p] \in DOMAIN indices \cap DOMAIN indices' =>
                 indices'[old_index[p]] = indices[old_index[p]]]_vars

\* C30 witness: a run has deleted the old index it found at preflight while
\* the index of another run is bound to the alias next to its own; it used
\* the shard count it had read from the old index.
C30_Witness ==
    \E p, q \in Procs :
        /\ p # q
        /\ pc[p] = "output_summary"
        /\ Ran(p, "delete_index")
        /\ old_index[p] \notin DOMAIN indices
        /\ new_index[p] # new_index[q]
        /\ {new_index[p], new_index[q]} \subseteq aliases
        /\ num_shards[p] = 3
        /\ indices[new_index[p]].number_of_shards = 3

\* C31: whenever the alias is bound to the new index of a run, that index has
\* the replica count handle read and a refresh interval of '5s'; a run whose
\* update_alias task has failed, in the settings update or elsewhere, has
\* not bound its index, and the old index is still bound.
C31_SettingsBeforeAlias ==
    \A p \in Procs :
        HasNewIndex(p) =>
            /\ new_index[p] \in aliases =>
                 /\ indices[new_index[p]].refresh_interval = "5s"
                 /\ indices[new_index[p]].number_of_replicas = num_replicas[p]
                 /\ old_index[p] \in DOMAIN indices =>
                      indices[new_index[p]].number_of_replicas =
                        Replicas(indices[old_index[p]])
            /\ (pc[p] = "Aborted" /\ failed[p] = "update_alias") =>
                 /\ new_index[p] \notin aliases
                 /\ old_index[p] # None => aliases = {old_index[p]}
            /\ pc[p] \in {"optimize", "update_settings", "update_aliases"} =>
                 new_index[p] \notin aliases

\* C31 witness: the alias has just been moved to a new index that has the one
\* replica of the old index and a refresh interval of '5s'.
C31_Witness ==
    \E p \in Procs :
        /\ pc[p] = "unflag_database"
        /\ aliases = {new_index[p]}
        /\ old_index[p] \in DOMAIN indices
        /\ "number_of_replicas" \in DOMAIN indices[old_index[p]]
        /\ indices[new_index[p]].number_of_replicas = 1
        /\ indices[new_index[p]].refresh_interval = "5s"

====
